---- MODULE Spec2Model ----
(***************************************************************************)
(* Model of Tools/autotest/common.py (class AutoTest): the parameter        *)
(* context stack (set_parameter, get_parameter, context_push, context_pop), *)
(* the scenario runner (run_test), the command dispatch (run_cmd) and the   *)
(* wait_* family that polls telemetry against a target until a deadline in  *)
(* simulated time.                                                          *)
(*                                                                          *)
(* The vehicle and MAVProxy are the environment: a "param set" may be       *)
(* applied, dropped or coerced, a "param fetch" may time out, and           *)
(* COMMAND_ACK messages arrive with any command identifier and result.      *)
(* Parameter values are floats in the code; the model draws them from       *)
(* 0..MaxValue, on which str() / float() round-trip exactly.                *)
(***************************************************************************)
EXTENDS Integers, Sequences, FiniteSets, TLC

VARIABLES
    param,      \* the vehicle's parameter table: name -> value
    contexts,   \* self.contexts: a list of Context.parameters lists
    fail_list,  \* self.fail_list: (desc, exception) of the failed scenarios
    ntests,     \* number of run_test calls started (desc of the running one)
    phase,      \* "idle", or "test" while run_test executes function()
    exc,        \* exception propagating out of function(), or "none"
    last,       \* history: the call that ended last, and how it ended
    hist,       \* history, one entry per Context: the state when it was pushed
    cmd,        \* the run_cmd call in progress or just ended
    wait        \* the wait_* call in progress or just ended

vars == <<param, contexts, fail_list, ntests, phase, exc, last, hist, cmd, wait>>

----------------------------------------------------------------------------
(* Bounds of the model *)

MaxValue == 2

MaxDepth == 3

MaxRecords == 2

MaxTests == 3

MaxAcks == 3

----------------------------------------------------------------------------
(* Values of the program *)

Names == {"X"}

Values == 0..MaxValue

\* get_parameter falls off the end of its loop when every fetch timed out
None == -1

\* for i in range(1, 11)
OneMoreAttempt == 9 + 1

\* for i in range(1, 10)
MaxAttempts == 9

\* float(value): raises TypeError on None, otherwise the number itself
FloatRaises(value) == value = None

Float(value) == value

\* a Context.parameters entry: the tuple (name, old_value)
Pair(name, old) == [name |-> name, old |-> old]

RECURSIVE Reverse(_)
Reverse(s) == IF s = <<>> THEN <<>> ELSE Append(Reverse(Tail(s)), Head(s))

RECURSIVE NumRecords(_)
NumRecords(ctxs) ==
    IF ctxs = <<>> THEN 0 ELSE Len(Head(ctxs)) + NumRecords(Tail(ctxs))

NoCall == [op |-> "none"]

----------------------------------------------------------------------------
(* The environment: the vehicle behind MAVProxy *)

\* what the vehicle may hold after "param set name value" when it held v: the
\* value written, v itself (write dropped) or any other value (write
\* coerced); a text that is no number ("None") changes nothing
WriteOutcomes(v, value) ==
    IF value = None THEN {v} ELSE Values

\* get_parameter(name): the value MAVProxy prints, or None when every fetch
\* timed out
GetParameterResults(v) == {v, None}

----------------------------------------------------------------------------
(* History bookkeeping (not program state) *)

\* snap and below: the parameter table and the context list when the Context
\* was pushed; a Context in whose scope a call raised keeps no history (Dirty)
HistEntry(table, below) ==
    [dirty |-> FALSE, snap |-> table, below |-> below]

Dirty == [dirty |-> TRUE]

Mark(h, raised) ==
    [k \in DOMAIN h |-> IF raised THEN Dirty ELSE h[k]]

----------------------------------------------------------------------------
(* set_parameter *)

\* "if returned_value is not None": any read-back is taken for a match
AnyReadBack(returned_value, value) == returned_value # None

\* if returned_value == float(value)
ReadBackMatches(returned_value, value) == returned_value = Float(value)

\* One iteration of "for i in range(1, 10)" and the iterations after it, for
\* every behaviour of the vehicle. S holds the values the parameter may have
\* when iteration i starts. Each result tells how the loop ended (kind), the
\* value nv the vehicle holds then, the last read-back rv and the number i of
\* "param set" lines sent.
RECURSIVE Loop(_, _, _)
Loop(i, value, S) ==
    LET after == UNION {WriteOutcomes(v, value) : v \in S}
        reads == {[nv |-> nv, rv |-> rv] :
                     nv \in after, rv \in after \cup {None}}
        seen  == {r \in reads : r.rv \in GetParameterResults(r.nv)}
    IN IF FloatRaises(value)
       THEN {[kind |-> "TypeError", nv |-> r.nv, rv |-> r.rv, i |-> i] : r \in seen}
       ELSE LET hit  == {r \in seen : ReadBackMatches(r.rv, value)}
                miss == seen \ hit
            IN {[kind |-> "return", nv |-> r.nv, rv |-> r.rv, i |-> i] : r \in hit}
               \cup
               (IF miss = {} THEN {}
                ELSE IF i < MaxAttempts
                THEN Loop(i + 1, value, {r.nv : r \in miss})
                ELSE {[kind |-> "ValueError", nv |-> r.nv, rv |-> r.rv, i |-> i] :
                         r \in miss})

\* the pair is appended to every Context of the stack
RecordInAll(ctxs, name, old_value) ==
    [k \in DOMAIN ctxs |-> Append(ctxs[k], Pair(name, old_value))]

\* self.context_get().parameters.append( (name, old_value) )
Record(ctxs, name, old_value) ==
    [ctxs EXCEPT ![Len(ctxs)] = Append(ctxs[Len(ctxs)], Pair(name, old_value))]

\* set_parameter(name, value, add_to_context) on the vehicle table and the
\* context list ctxs: every way the call can end. context_get() raises
\* IndexError when the list is empty.
SetParameterResults(table, ctxs, name, value, add_to_context) ==
    {[kind  |-> IF r.kind = "return" /\ add_to_context /\ ctxs = <<>>
                THEN "IndexError" ELSE r.kind,
      table |-> [table EXCEPT ![name] = r.nv],
      ctxs  |-> IF r.kind = "return" /\ add_to_context /\ ctxs # <<>>
                THEN Record(ctxs, name, old_value) ELSE ctxs,
      i |-> r.i, rv |-> r.rv] :
        old_value \in GetParameterResults(table[name]),
        r \in Loop(1, value, {table[name]})}

----------------------------------------------------------------------------
(* context_pop *)

\* the same without the reverse()
RestoreInOrder(dead_parameters) == dead_parameters

\* dead_parameters.reverse()
RestoreOrder(dead_parameters) == Reverse(dead_parameters)

\* def set_parameter(self, name, value, add_to_context=True)
DefaultAddToContext == TRUE

\* the restoring call made with the default add_to_context
RestoreRecords == TRUE

\* add_to_context=False
RestoreAddToContext == FALSE

\* "for p in dead_parameters: self.set_parameter(name, old_value,
\* add_to_context=False)" from the pairs todo on: every way the loop can end.
\* order lists the pairs handed to set_parameter so far.
RECURSIVE Restore(_, _, _, _)
Restore(todo, table, ctxs, order) ==
    IF todo = <<>>
    THEN {[kind |-> "return", table |-> table, ctxs |-> ctxs, order |-> order]}
    ELSE LET p   == Head(todo)
             res == SetParameterResults(table, ctxs, p.name, p.old,
                                        RestoreAddToContext)
             ok  == {[table |-> r.table, ctxs |-> r.ctxs] :
                        r \in {x \in res : x.kind = "return"}}
         IN {[kind |-> r.kind, table |-> r.table, ctxs |-> r.ctxs,
              order |-> Append(order, p)] : r \in {x \in res : x.kind # "return"}}
            \cup
            UNION {Restore(Tail(todo), s.table, s.ctxs, Append(order, p)) : s \in ok}

\* the same with self.contexts.pop(0): the oldest Context is taken
ContextPopOldest(table, ctxs) ==
    Restore(RestoreOrder(ctxs[1]), table, Tail(ctxs), <<>>)

\* the Context is put back when its restore raised
ContextPopPutsBack(table, ctxs) ==
    {IF r.kind = "return" THEN r
     ELSE [r EXCEPT !.ctxs = Append(r.ctxs, ctxs[Len(ctxs)])] :
        r \in Restore(RestoreOrder(ctxs[Len(ctxs)]), table,
                      SubSeq(ctxs, 1, Len(ctxs) - 1), <<>>)}

\* context_pop(): dead = self.contexts.pop(), then the restore loop
ContextPopResults(table, ctxs) ==
    LET dead == ctxs[Len(ctxs)]
        rest == SubSeq(ctxs, 1, Len(ctxs) - 1)
    IN Restore(RestoreOrder(dead), table, rest, <<>>)

----------------------------------------------------------------------------
Init ==
    /\ param \in [Names -> Values]
    /\ contexts = << <<>> >>
    /\ fail_list = <<>>
    /\ ntests = 0
    /\ phase = "idle"
    /\ exc = "none"
    /\ last = NoCall
    /\ hist = << HistEntry(param, <<>>) >>
    /\ cmd = [status |-> "none"]
    /\ wait = [status |-> "none"]

\* the caller (a scenario, or harness code outside run_test) is between two of
\* its statements: no exception is on its way out
CallerReady == exc = "none"

----------------------------------------------------------------------------
(* run_test *)

RunTestStart ==
    /\ phase = "idle"
    /\ ntests < MaxTests
    /\ phase' = "test"
    /\ ntests' = ntests + 1
    /\ last' = NoCall
    /\ UNCHANGED <<param, contexts, fail_list, exc, hist, cmd, wait>>

\* function() returns: PASSED
RunTestPass ==
    /\ phase = "test"
    /\ CallerReady
    /\ phase' = "idle"
    /\ last' = NoCall
    /\ UNCHANGED <<param, contexts, fail_list, ntests, exc, hist, cmd, wait>>

\* exceptions a scenario may raise: classes derived from Exception
Failures == {"NotAchievedException", "AutoTestTimeoutException"}

\* function() raises an exception of its own (a wait that failed, ...)
ScenarioRaise ==
    /\ phase = "test"
    /\ CallerReady
    /\ \E e \in Failures : exc' = e
    /\ last' = NoCall
    /\ UNCHANGED <<param, contexts, fail_list, ntests, phase, hist, cmd, wait>>

\* the entry is put at the head of the list
FailListInsert(list, desc, e) == <<[desc |-> desc, e |-> e]>> \o list

\* self.fail_list.append((desc, e))
FailListAppend(list, desc, e) == Append(list, [desc |-> desc, e |-> e])

\* except Exception as e: fail_list.append((desc, e)); return
RunTestExcept ==
    /\ phase = "test"
    /\ exc # "none"
    /\ fail_list' = FailListAppend(fail_list, ntests, exc)
    /\ exc' = "none"
    /\ phase' = "idle"
    /\ last' = NoCall
    /\ UNCHANGED <<param, contexts, ntests, hist, cmd, wait>>

----------------------------------------------------------------------------
(* The calls of the context stack *)

\* the same with a new Context that shares the list of the current one
ContextPushShared ==
    /\ CallerReady
    /\ Len(contexts) < MaxDepth
    /\ contexts' = Append(contexts, IF contexts = <<>> THEN <<>>
                                    ELSE contexts[Len(contexts)])
    /\ hist' = Append(hist, HistEntry(param, contexts))
    /\ last' = [op |-> "context_push"]
    /\ UNCHANGED <<param, fail_list, ntests, phase, exc, cmd, wait>>

\* self.contexts.append(Context())
ContextPush ==
    /\ CallerReady
    /\ Len(contexts) < MaxDepth
    /\ contexts' = Append(contexts, <<>>)
    /\ hist' = Append(hist, HistEntry(param, contexts))
    /\ last' = [op |-> "context_push"]
    /\ UNCHANGED <<param, fail_list, ntests, phase, exc, cmd, wait>>

\* set_parameter(name, value, add_to_context) ending the way r
SetParameterEnds(name, value, add_to_context, r) ==
    /\ param' = r.table
    /\ contexts' = r.ctxs
    /\ exc' = IF r.kind = "return" THEN "none" ELSE r.kind
    /\ hist' = Mark(hist, r.kind # "return" \/ ~add_to_context)
    /\ UNCHANGED <<fail_list, ntests, phase, cmd, wait>>

\* a call with the default add_to_context, as every caller but context_pop
\* makes it
SetParameter(name, value) ==
    /\ CallerReady
    /\ NumRecords(contexts) < MaxRecords
    /\ \E r \in SetParameterResults(param, contexts, name, value, DefaultAddToContext) :
       /\ SetParameterEnds(name, value, DefaultAddToContext, r)
       /\ last' = NoCall

\* the same call, with the history of how it went
SetParameterCall(name, value, add_to_context) ==
    /\ CallerReady
    /\ NumRecords(contexts) < MaxRecords
    /\ \E r \in SetParameterResults(param, contexts, name, value, add_to_context) :
       /\ SetParameterEnds(name, value, add_to_context, r)
       /\ last' = [op |-> "set_parameter", kind |-> r.kind, name |-> name,
                   value |-> value, i |-> r.i, rv |-> r.rv,
                   add |-> add_to_context]

ContextPop ==
    /\ CallerReady
    /\ IF contexts = <<>>
       THEN /\ exc' = "IndexError"
            /\ last' = [op |-> "context_pop", kind |-> "IndexError",
                        order |-> <<>>, n |-> 0, prev |-> last.op]
            /\ UNCHANGED <<param, contexts, hist>>
       ELSE \E r \in ContextPopResults(param, contexts) :
              /\ param' = r.table
              /\ contexts' = r.ctxs
              /\ exc' = IF r.kind = "return" THEN "none" ELSE r.kind
              /\ last' = [op |-> "context_pop", kind |-> r.kind,
                          order |-> r.order,
                          n |-> Len(contexts[Len(contexts)]),
                          prev |-> last.op]
              /\ hist' = Mark(SubSeq(hist, 1, Len(hist) - 1),
                              r.kind # "return")
    /\ UNCHANGED <<fail_list, ntests, phase, cmd, wait>>

----------------------------------------------------------------------------
(* run_cmd *)

\* MAV_CMD identifiers and MAV_RESULT codes
Commands == {"MAV_CMD_CONDITION_YAW", "MAV_CMD_DO_SET_MODE"}

Results == {"MAV_RESULT_ACCEPTED", "MAV_RESULT_DENIED", "MAV_RESULT_FAILED"}

\* every COMMAND_ACK is taken for the answer
AnyAck(m, command) == TRUE

\* if m.command == command
AckMatches(m, command) == m.command = command

\* self.mav.mav.command_long_send(1, 1, command, 1, p1, ..., p7)
RunCmdSend(command, want_result) ==
    /\ cmd.status # "waiting"
    /\ cmd' = [status |-> "waiting", command |-> command,
               want_result |-> want_result, sent |-> 1, acks |-> 0,
               m |-> [command |-> "none", result |-> "none"]]
    /\ UNCHANGED <<param, contexts, fail_list, ntests, phase, exc, last, hist, wait>>

\* the same with a retry: on a matching acknowledgment that carries another
\* result the command is sent again and the loop goes on
RunCmdRecvResend(m) ==
    /\ cmd.status = "waiting"
    /\ cmd.acks < MaxAcks
    /\ cmd' = [cmd EXCEPT
                 !.acks = cmd.acks + 1,
                 !.m = m,
                 !.sent = IF AckMatches(m, cmd.command) /\ m.result # cmd.want_result
                          THEN cmd.sent + 1 ELSE cmd.sent,
                 !.status = IF AckMatches(m, cmd.command) /\ m.result = cmd.want_result
                            THEN "returned" ELSE "waiting"]
    /\ UNCHANGED <<param, contexts, fail_list, ntests, phase, exc, last, hist, wait>>

\* the same with a limit: the second acknowledgment for another command
\* makes run_cmd give up and raise
RunCmdRecvGivesUp(m) ==
    /\ cmd.status = "waiting"
    /\ cmd.acks < MaxAcks
    /\ cmd' = [cmd EXCEPT
                 !.acks = cmd.acks + 1,
                 !.m = m,
                 !.status = IF AckMatches(m, cmd.command)
                            THEN IF m.result # cmd.want_result
                                 THEN "raised" ELSE "returned"
                            ELSE IF cmd.acks >= 1 THEN "raised" ELSE "waiting"]
    /\ UNCHANGED <<param, contexts, fail_list, ntests, phase, exc, last, hist, wait>>

\* one iteration of "while True": m = recv_match(type='COMMAND_ACK',
\* blocking=True), then the two tests
RunCmdRecv(m) ==
    /\ cmd.status = "waiting"
    /\ cmd.acks < MaxAcks
    /\ cmd' = [cmd EXCEPT
                 !.acks = cmd.acks + 1,
                 !.m = m,
                 !.status = IF AckMatches(m, cmd.command)
                            THEN IF m.result # cmd.want_result
                                 THEN "raised" ELSE "returned"
                            ELSE "waiting"]
    /\ UNCHANGED <<param, contexts, fail_list, ntests, phase, exc, last, hist, wait>>

----------------------------------------------------------------------------
(* The simulated clock *)

\* the clock readings of the model end here
MaxTime == 5

\* the largest advance of the clock between two SYSTEM_TIME messages
MaxStep == 2

\* the longest run of matching samples a sustained wait counts
MaxCount == 3

\* iterations of a wait that was given a per-tick action
MaxCalls == 3

\* get_sim_time(): blocks for the next SYSTEM_TIME message and returns its
\* time_boot_ms in seconds; t is the reading before. The clock never goes
\* back; two messages may carry the same time.
SimTimes(t) == {u \in t..MaxTime : u - t <= MaxStep}

\* the deadline taken one second early
LoopConditionEarly(t, tstart, timeout) == t + 1 < tstart + timeout

\* while self.get_sim_time() < tstart + timeout
LoopCondition(t, tstart, timeout) == t < tstart + timeout

Abs(x) == IF x < 0 THEN 0 - x ELSE x

----------------------------------------------------------------------------
(* The wait_* calls and their telemetry *)

\* roll and pitch raise the same exception
TimeoutKindShared(fn) ==
    CASE fn = "wait_altitude"     -> "WaitAltitudeTimout"
      [] fn = "wait_groundspeed"  -> "WaitGroundSpeedTimeout"
      [] fn = "wait_roll"         -> "WaitRollTimeout"
      [] fn = "wait_pitch"        -> "WaitRollTimeout"
      [] fn = "wait_heading"      -> "WaitHeadingTimeout"
      [] fn = "wait_yaw_speed"    -> "YawSpeedNotAchievedException"
      [] fn = "wait_speed_vector" -> "SpeedVectorNotAchievedException"
      [] fn = "wait_distance"     -> "WaitDistanceTimeout"
      [] fn = "wait_location"     -> "WaitLocationTimeout"
      [] fn = "wait_waypoint"     -> "WaitWaypointTimeout"
      [] fn = "wait_mode"         -> "WaitModeTimeout"
      [] OTHER                    -> "AutoTestTimeoutException"

\* the exception each wait raises after its loop
TimeoutKind(fn) ==
    CASE fn = "wait_altitude"     -> "WaitAltitudeTimout"
      [] fn = "wait_groundspeed"  -> "WaitGroundSpeedTimeout"
      [] fn = "wait_roll"         -> "WaitRollTimeout"
      [] fn = "wait_pitch"        -> "WaitPitchTimeout"
      [] fn = "wait_heading"      -> "WaitHeadingTimeout"
      [] fn = "wait_yaw_speed"    -> "YawSpeedNotAchievedException"
      [] fn = "wait_speed_vector" -> "SpeedVectorNotAchievedException"
      [] fn = "wait_distance"     -> "WaitDistanceTimeout"
      [] fn = "wait_location"     -> "WaitLocationTimeout"
      [] fn = "wait_waypoint"     -> "WaitWaypointTimeout"
      [] fn = "wait_mode"         -> "WaitModeTimeout"
      [] OTHER                    -> "AutoTestTimeoutException"

\* timeout arguments (simulated seconds) and maintain_target_time arguments
Timeouts == {3}

Sustains == {0, 1}

\* the calls of the threshold waits: they return on the first matching sample
ThresholdCalls ==
    {[fn |-> "wait_altitude", alt_min |-> 1, alt_max |-> 2, timeout |-> T,
      relative |-> r] : T \in Timeouts, r \in BOOLEAN}
    \cup
    {[fn |-> "wait_groundspeed", gs_min |-> 1, gs_max |-> 2, timeout |-> T] :
        T \in Timeouts}
    \cup
    {[fn |-> "wait_roll", roll |-> 2, accuracy |-> 1, timeout |-> T] :
        T \in Timeouts}
    \cup
    {[fn |-> "wait_pitch", pitch |-> 2, accuracy |-> 1, timeout |-> T] :
        T \in Timeouts}
    \cup
    {[fn |-> "wait_location", accuracy |-> 1, timeout |-> T,
      target_altitude |-> 1, height_accuracy |-> h] :
        T \in Timeouts, h \in {-1, 0}}

\* the calls of the sustained waits: the match has to last
\* maintain_target_time; the_function tells whether a per-tick action was
\* given (the_function is not None)
SustainedCalls ==
    {[fn |-> "wait_heading", heading |-> h, accuracy |-> 5,
      maintain_target_time |-> S, timeout |-> T, the_function |-> f] :
        h \in {3, 90}, S \in Sustains, T \in Timeouts, f \in BOOLEAN}
    \cup
    {[fn |-> "wait_yaw_speed", target_yaw_speed |-> 2, target_accuracy |-> 1,
      maintain_target_time |-> S, timeout |-> T, the_function |-> f] :
        S \in Sustains, T \in Timeouts, f \in BOOLEAN}
    \cup
    {[fn |-> "wait_speed_vector", target_vx |-> 1, target_vy |-> 1,
      target_vz |-> 0, target_accuracy |-> 0,
      maintain_target_time |-> S, timeout |-> T, the_function |-> f] :
        S \in Sustains, T \in Timeouts, f \in BOOLEAN}

DistanceCalls ==
    {[fn |-> "wait_distance", distance |-> 2, accuracy |-> 1, timeout |-> T] :
        T \in Timeouts}

\* the telemetry a wait may receive: the message fields it reads.
\* GLOBAL_POSITION_INT carries millimetres; ATTITUDE angles and rates are
\* given in degrees, as math.degrees() returns them; for wait_location and
\* wait_distance the sample is what get_distance() and pos.alt give.
Samples(fn) ==
    CASE fn = "wait_altitude" ->
            {[alt |-> a, relative_alt |-> r] :
                a \in {0, 1000, 3000}, r \in {0, 2000, 3000}}
      [] fn = "wait_groundspeed" -> {[groundspeed |-> v] : v \in 0..3}
      [] fn = "wait_roll" -> {[roll |-> v, pitch |-> 0] : v \in 0..4}
      [] fn = "wait_pitch" -> {[roll |-> 0, pitch |-> v] : v \in 0..4}
      [] fn = "wait_location" -> {[delta |-> d, alt |-> a] : d \in 0..2, a \in 0..2}
      [] fn = "wait_heading" -> {[heading |-> v] : v \in {0, 90, 180, 357}}
      [] fn = "wait_yaw_speed" -> {[yawspeed |-> v] : v \in {0, 2, 3}}
      [] fn = "wait_speed_vector" ->
            {[vx |-> x, vy |-> y, vz |-> z] : x \in 0..1, y \in 0..1, z \in 0..1}
      [] fn = "wait_distance" -> {[delta |-> d] : d \in 0..4}

\* the ends of the range left out
AltitudeInside(mm, alt_min, alt_max) == mm > 1000 * alt_min /\ mm < 1000 * alt_max

\* alt = m.alt/1000.0 (mm -> m); if alt >= alt_min and alt <= alt_max: the
\* comparison is made in millimetres here
AltitudeOk(mm, alt_min, alt_max) == mm >= 1000 * alt_min /\ mm <= 1000 * alt_max

\* the test each wait makes on a sample
InTolerance(p, m) ==
    CASE p.fn = "wait_altitude" ->
            \* if relative: alt = m.relative_alt/1000.0 else: alt = m.alt/1000.0
            AltitudeOk(IF p.relative THEN m.relative_alt ELSE m.alt,
                       p.alt_min, p.alt_max)
      [] p.fn = "wait_groundspeed" ->
            m.groundspeed >= p.gs_min /\ m.groundspeed <= p.gs_max
      [] p.fn = "wait_roll" -> Abs(m.roll - p.roll) <= p.accuracy
      [] p.fn = "wait_pitch" -> Abs(m.pitch - p.pitch) <= p.accuracy
      [] p.fn = "wait_location" ->
            /\ m.delta <= p.accuracy
            /\ ~(p.height_accuracy # -1
                 /\ Abs(m.alt - p.target_altitude) > p.height_accuracy)
      [] p.fn = "wait_heading" ->
            \/ Abs(m.heading - p.heading) <= p.accuracy
            \/ (p.heading <= p.accuracy /\ Abs(m.heading - 360) <= p.accuracy)
      [] p.fn = "wait_yaw_speed" ->
            Abs(m.yawspeed - p.target_yaw_speed) <= p.target_accuracy
      [] p.fn = "wait_speed_vector" ->
            /\ Abs(m.vx - p.target_vx) <= p.target_accuracy
            /\ Abs(m.vy - p.target_vy) <= p.target_accuracy
            /\ Abs(m.vz - p.target_vz) <= p.target_accuracy
      [] p.fn = "wait_distance" -> Abs(m.delta - p.distance) <= p.accuracy

\* what a sustained wait adds to its running sums
Observed(p, m) ==
    CASE p.fn = "wait_heading" -> <<m.heading>>
      [] p.fn = "wait_yaw_speed" -> <<m.yawspeed>>
      [] p.fn = "wait_speed_vector" -> <<m.vx, m.vy, m.vz>>
      [] OTHER -> <<>>

ZeroMean(p) == [i \in DOMAIN Observed(p, CHOOSE m \in Samples(p.fn) : TRUE) |-> 0]

AddTo(mean, obs) == [i \in DOMAIN mean |-> mean[i] + obs[i]]

\* maintain_target_time of the call; the threshold waits have none
MinSustain(p) ==
    IF p.fn \in {"wait_heading", "wait_yaw_speed", "wait_speed_vector"}
    THEN p.maintain_target_time ELSE 0

NoSample == [seen |-> FALSE]

\* History of the samples evaluated (not program state): the check-time of
\* the first matching sample, the last reading after a matching sample, the
\* check-time of the first sample of the present run of matches, and whether
\* a sample that did not match came after a matching one.
NoHistory == [firstok |-> None, lastok |-> None, runstart |-> None, broke |-> FALSE]

Seen(g, ok, t0, t2) ==
    IF ok
    THEN [g EXCEPT !.firstok = IF g.firstok = None THEN t0 ELSE g.firstok,
                   !.lastok = t2,
                   !.runstart = IF g.runstart = None THEN t0 ELSE g.runstart]
    ELSE [g EXCEPT !.runstart = None,
                   !.broke = g.broke \/ g.firstok # None]

\* the locals of a wait that has read its start time t (g and run are
\* history: run keeps what the matching samples since the last sample out
\* of tolerance added to the sums; for a wait with a per-tick action calls
\* counts its invocations, recvs the samples received and recvs_at_call the
\* samples that had been received when it was last invoked)
NewWait(p, t) ==
    [status |-> "running", p |-> p, tstart |-> t, now |-> t, tcheck |-> None,
     m |-> NoSample, duration_start |-> None, counter |-> 0,
     mean |-> ZeroMean(p), exc |-> "none", args |-> <<>>, cause |-> "none",
     ret |-> "none", g |-> NoHistory, run |-> <<>>,
     calls |-> 0, recvs |-> 0, recvs_at_call |-> None]

\* raise <class>(): every raise of the waits builds its exception with no
\* argument, and the classes (lines 42-123) have no field of their own, so
\* e.args is the empty tuple; cause names the raise statement (history)
Raise(w, exception, cause) ==
    [w EXCEPT !.status = "raised", !.exc = exception, !.args = <<>>,
              !.cause = cause]

\* the function falls off its end: the caller gets None
ReturnNothing(w, ret) == [w EXCEPT !.status = "returned", !.ret = "None"]

\* return True in the waits (wait_mode ends with no return statement: None)
Return(w, ret) == [w EXCEPT !.status = "returned", !.ret = ret]

\* no wait has been called yet: a behaviour follows one wait call from its
\* start to its end (a wait keeps nothing from one call to the next)
NoWaitRunning == wait.status = "none"

OthersUnchanged ==
    UNCHANGED <<param, contexts, fail_list, ntests, phase, exc, last, hist, cmd>>

\* tstart = self.get_sim_time(), and the locals at their first values
WaitStart(p) ==
    /\ NoWaitRunning
    /\ \E t \in 0..MaxStep : wait' = NewWait(p, t)
    /\ OthersUnchanged

\* One iteration of the loop of wait_altitude, wait_groundspeed, wait_roll,
\* wait_pitch or wait_location: the deadline test, the blocking receive, the
\* test of the sample; the raise after the loop when the deadline has passed.
ThresholdTick(fn) ==
    /\ wait.status = "running"
    /\ wait.p.fn = fn
    /\ \E t \in SimTimes(wait.now) :
          LET w == [wait EXCEPT !.now = t, !.tcheck = t]
          IN IF ~LoopCondition(t, wait.tstart, wait.p.timeout)
             THEN wait' = Raise(w, TimeoutKind(fn), "deadline")
             ELSE \E m \in Samples(fn) :
                    LET ok == InTolerance(wait.p, m)
                        v  == [w EXCEPT !.m = m, !.g = Seen(wait.g, ok, t, t)]
                    IN wait' = IF ok THEN Return(v, "True") ELSE v
    /\ OthersUnchanged

WaitAltitude == ThresholdTick("wait_altitude")

WaitGroundspeed == ThresholdTick("wait_groundspeed")

WaitRoll == ThresholdTick("wait_roll")

WaitPitch == ThresholdTick("wait_pitch")

WaitLocation == ThresholdTick("wait_location")

\* if self.get_sim_time() - duration_start > maintain_target_time
Sustained(elapsed, maintain_target_time) == elapsed > maintain_target_time

\* the locals stay as they are on a sample that does not match
KeepOnBreak(w, p) == w

\* only the start of the run is forgotten
ResetStartOnly(w, p) == [w EXCEPT !.duration_start = None]

\* else: duration_start = None; mean = 0.0; counter = 0.0
ResetOnBreak(w, p) ==
    [w EXCEPT !.duration_start = None, !.mean = ZeroMean(p), !.counter = 0]

\* the per-tick action is never invoked
CallSkipped(w) == w

\* if the_function is not None: the_function()
TheFunction(w) ==
    IF w.p.the_function
    THEN [w EXCEPT !.calls = w.calls + 1, !.recvs_at_call = w.recvs]
    ELSE w

\* m = self.mav.recv_match(..., blocking=True)
Received(w, m) ==
    [w EXCEPT !.m = m, !.recvs = IF w.p.the_function THEN w.recvs + 1 ELSE w.recvs]

\* One iteration of the loop of wait_heading, wait_yaw_speed or
\* wait_speed_vector. On a matching sample the clock is read once more when
\* the run of matches starts (duration_start) and once for the test of the
\* time the match has lasted.
SustainedTick(fn) ==
    /\ wait.status = "running"
    /\ wait.p.fn = fn
    /\ wait.counter < MaxCount
    /\ wait.calls < MaxCalls
    /\ \E t0 \in SimTimes(wait.now) :
          LET w == [wait EXCEPT !.now = t0, !.tcheck = t0]
          IN IF ~LoopCondition(t0, wait.tstart, wait.p.timeout)
             THEN wait' = Raise(w, TimeoutKind(fn), "deadline")
             ELSE \E m \in Samples(fn) :
                    LET r == Received(TheFunction(w), m)
                    IN IF InTolerance(wait.p, m)
                       THEN \E t1 \in SimTimes(t0) :
                              /\ wait.duration_start # None => t1 = t0
                              /\ \E t2 \in SimTimes(t1) :
                                   LET ds == IF wait.duration_start = None
                                             THEN t1 ELSE wait.duration_start
                                       v  == [r EXCEPT
                                                !.mean = AddTo(wait.mean, Observed(wait.p, m)),
                                                !.counter = wait.counter + 1,
                                                !.duration_start = ds,
                                                !.now = t2,
                                                !.g = Seen(wait.g, TRUE, t0, t2),
                                                !.run = Append(wait.run, Observed(wait.p, m))]
                                   IN wait' = IF Sustained(t2 - ds, wait.p.maintain_target_time)
                                              THEN Return(v, "True") ELSE v
                       ELSE wait' = ResetOnBreak([r EXCEPT
                                                    !.g = Seen(wait.g, FALSE, t0, t0),
                                                    !.run = <<>>],
                                                 wait.p)
    /\ OthersUnchanged

WaitHeading == SustainedTick("wait_heading")

WaitYawSpeed == SustainedTick("wait_yaw_speed")

WaitSpeedVector == SustainedTick("wait_speed_vector")

\* the overshoot test left out
NoOvershoot(delta, distance, accuracy) == FALSE

\* if delta > (distance + accuracy)
Overshoot(delta, distance, accuracy) == delta > distance + accuracy

\* One iteration of the loop of wait_distance; delta is the distance between
\* the location read at the start and the one read now.
WaitDistance ==
    /\ wait.status = "running"
    /\ wait.p.fn = "wait_distance"
    /\ \E t \in SimTimes(wait.now) :
          LET w == [wait EXCEPT !.now = t, !.tcheck = t]
          IN IF ~LoopCondition(t, wait.tstart, wait.p.timeout)
             THEN wait' = Raise(w, TimeoutKind("wait_distance"), "deadline")
             ELSE \E m \in Samples("wait_distance") :
                    LET ok == InTolerance(wait.p, m)
                        v  == [w EXCEPT !.m = m, !.g = Seen(wait.g, ok, t, t)]
                    IN wait' = IF ok THEN Return(v, "True")
                               ELSE IF Overshoot(m.delta, wait.p.distance, wait.p.accuracy)
                               THEN Raise(v, "WaitDistanceTimeout", "overshoot")
                               ELSE v
    /\ OthersUnchanged

----------------------------------------------------------------------------
(* wait_waypoint *)

\* MISSION_CURRENT sequence numbers, NAV_CONTROLLER_OUTPUT distances and
\* flight modes the vehicle may report
Seqs == {3, 4, 5, 255}

WpDists == {1, 2}

Modes == {"AUTO", "RTL"}

WaypointCalls ==
    {[fn |-> "wait_waypoint", wpnum_start |-> 3, wpnum_end |-> e,
      allow_skip |-> a, max_dist |-> 2, timeout |-> T] :
        e \in {3, 5}, a \in BOOLEAN, T \in Timeouts}

\* tstart = get_sim_time(); start_wp = waypoint_current(); current_wp =
\* start_wp; mode = self.mav.flightmode (began keeps the first tstart; it
\* is history, not program state)
WaitWaypointStart(p) ==
    /\ NoWaitRunning
    /\ \E t \in 0..MaxStep, start_wp \in Seqs, mode \in Modes :
          wait' = [status |-> "running", p |-> p, tstart |-> t, now |-> t,
                   tcheck |-> None, m |-> NoSample, start_wp |-> start_wp,
                   current_wp |-> start_wp, mode |-> mode, began |-> t,
                   exc |-> "none", args |-> <<>>, cause |-> "none",
                   ret |-> "none", advanced |-> FALSE]
    /\ OthersUnchanged

\* a higher index is taken whether or not skipping is allowed
AdvancesAlways(seq, current_wp, allow_skip) == seq >= current_wp + 1

\* any other index is taken, a lower one as well
AdvancesOnChange(seq, current_wp, allow_skip) == seq # current_wp

\* if seq == current_wp+1 or (seq > current_wp+1 and allow_skip)
Advances(seq, current_wp, allow_skip) ==
    seq = current_wp + 1 \/ (seq > current_wp + 1 /\ allow_skip)

\* the mode test left out
ModeKept(flightmode, mode) == FALSE

\* if self.mav.flightmode != mode
ModeChanged(flightmode, mode) == flightmode # mode

\* the deadline keeps running from the start of the wait
LegKept(tstart, t1) == tstart

\* tstart = self.get_sim_time() on the advance to a new waypoint
LegRestart(tstart, t1) == t1

\* the test the source keeps in a comment: one waypoint before the last
\* and near enough counts as well
ReachedFinalOrNear(current_wp, wpnum_end, wp_dist, max_dist) ==
    current_wp = wpnum_end \/ (current_wp = wpnum_end - 1 /\ wp_dist < max_dist)

\* if current_wp == wpnum_end and wp_dist < max_dist
ReachedFinal(current_wp, wpnum_end, wp_dist, max_dist) ==
    current_wp = wpnum_end /\ wp_dist < max_dist

\* the tests of one iteration after the receives: the mode, the advance to
\* a new waypoint (t1 is the clock reading that restarts the deadline), the
\* two ways to succeed, the skipped waypoint
WaypointChecks(w, m, t1) ==
    LET p == w.p
        v == IF Advances(m.seq, w.current_wp, p.allow_skip)
             THEN [w EXCEPT !.m = m, !.tstart = LegRestart(w.tstart, t1), !.now = t1,
                            !.current_wp = m.seq, !.advanced = TRUE]
             ELSE [w EXCEPT !.m = m, !.advanced = FALSE]
    IN IF ModeChanged(m.flightmode, w.mode)
       THEN Raise([w EXCEPT !.m = m, !.advanced = FALSE],
                  "WaitWaypointTimeout", "mode")
       ELSE IF ReachedFinal(v.current_wp, p.wpnum_end, m.wp_dist, p.max_dist)
       THEN Return(v, "True")
       ELSE IF m.seq >= 255
       THEN Return(v, "True")
       ELSE IF m.seq > v.current_wp + 1
       THEN Raise(v, "WaitWaypointTimeout", "skipped")
       ELSE v

\* One iteration of the loop of wait_waypoint, or the raise after the loop.
\* (last_wp_dist and last_alt only choose what is printed.)
WaitWaypoint ==
    /\ wait.status = "running"
    /\ wait.p.fn = "wait_waypoint"
    /\ \E t0 \in SimTimes(wait.now) :
          LET w == [wait EXCEPT !.now = t0, !.tcheck = t0]
          IN IF ~LoopCondition(t0, wait.tstart, wait.p.timeout)
             THEN wait' = Raise([w EXCEPT !.advanced = FALSE],
                                TimeoutKind("wait_waypoint"), "deadline")
             ELSE \E seq \in Seqs, wp_dist \in WpDists, flightmode \in Modes,
                     t1 \in SimTimes(t0) :
                    wait' = WaypointChecks(w, [seq |-> seq, wp_dist |-> wp_dist,
                                               flightmode |-> flightmode], t1)
    /\ OthersUnchanged

----------------------------------------------------------------------------
(* wait_mode *)

\* the keys of self.mav.mode_mapping()
ModeMap == {"AUTO", "GUIDED", "RTL"}

ModeCalls ==
    {[fn |-> "wait_mode", mode |-> mode, timeout |-> T] :
        mode \in {"GUIDED", "BRAKE"}, T \in Timeouts \cup {None}}

\* the mode_map test, tstart = get_sim_time() and the first wait_heartbeat();
\* with no mode map the second progress() line raises AttributeError
WaitModeStart(p) ==
    /\ NoWaitRunning
    /\ \E no_map \in BOOLEAN, t \in 0..MaxStep, flightmode \in ModeMap :
          wait' = IF no_map
                  THEN Raise(NewWait(p, None), "AttributeError", "mode_map")
                  ELSE IF p.mode \notin ModeMap
                  THEN Raise(NewWait(p, None), "ErrorException", "mode")
                  ELSE [NewWait(p, t) EXCEPT !.m = [flightmode |-> flightmode]]
    /\ OthersUnchanged

\* One evaluation of "while self.mav.flightmode != mode" and the loop body
WaitMode ==
    /\ wait.status = "running"
    /\ wait.p.fn = "wait_mode"
    /\ IF wait.m.flightmode = wait.p.mode
       THEN wait' = Return(wait, "None")
       ELSE \E t \in SimTimes(wait.now), flightmode \in ModeMap :
              IF wait.p.timeout = None
              THEN /\ t = wait.now
                   /\ wait' = [wait EXCEPT !.m = [flightmode |-> flightmode]]
              ELSE LET w == [wait EXCEPT !.now = t, !.tcheck = t]
                   IN wait' = IF t > wait.tstart + wait.p.timeout
                              THEN Raise(w, TimeoutKind("wait_mode"), "deadline")
                              ELSE [w EXCEPT !.m = [flightmode |-> flightmode]]
    /\ OthersUnchanged

----------------------------------------------------------------------------
(* wait_ekf_happy and wait_ready_to_arm *)

RequiredBits ==
    {"EKF_ATTITUDE", "ESTIMATOR_VELOCITY_HORIZ", "ESTIMATOR_VELOCITY_VERT",
     "ESTIMATOR_POS_HORIZ_REL", "ESTIMATOR_POS_HORIZ_ABS",
     "ESTIMATOR_POS_VERT_ABS", "ESTIMATOR_PRED_POS_HORIZ_REL",
     "ESTIMATOR_PRED_POS_HORIZ_ABS"}

ErrorBits ==
    {"ESTIMATOR_CONST_POS_MODE", "ESTIMATOR_GPS_GLITCH", "ESTIMATOR_ACCEL_ERROR"}

\* EKF_STATUS_REPORT.flags, as the set of the bits set: all required bits,
\* all but one, or none, with no error bit, one, or all; and some of these
\* with a bit that is in neither set
EkfFlags ==
    {base \cup err :
        base \in {RequiredBits, {}} \cup {RequiredBits \ {b} : b \in RequiredBits},
        err \in {{}, ErrorBits} \cup {{e} : e \in ErrorBits}}
    \cup
    {base \cup err \cup {"ESTIMATOR_POS_VERT_AGL"} :
        base \in {RequiredBits, {}}, err \in {{}, ErrorBits}}

\* wait_ekf_happy(timeout=30); wait_ready_to_arm(timeout=None) hands its
\* timeout on
EkfCalls ==
    {[fn |-> fn, timeout |-> T] :
        fn \in {"wait_ekf_happy", "wait_ready_to_arm"},
        T \in Timeouts \cup {None}}

\* values get_parameter('AHRS_EKF_TYPE') may return
EkfTypes == {None, 2, 10}

\* the estimator is asked whatever AHRS_EKF_TYPE is
NeverSitlEstimates(type) == FALSE

\* if (int(self.get_parameter('AHRS_EKF_TYPE')) == 10); the parameter
\* values of the model are whole numbers, which int() leaves as they are
UsesSitlEstimates(type) == type = 10

\* int(self.get_parameter('AHRS_EKF_TYPE')) == 10, then tstart (ekf_type
\* keeps the value read)
WaitEkfHappyStart(p) ==
    /\ NoWaitRunning
    /\ \E type \in EkfTypes, t \in 0..MaxStep :
          LET New(t0) == [ekf_type |-> type] @@ NewWait(p, t0)
          IN wait' = IF type = None
                     THEN Raise(New(None), "TypeError", "AHRS_EKF_TYPE")
                     ELSE IF UsesSitlEstimates(type)
                     THEN Return(New(None), "True")
                     ELSE New(t)
    /\ OthersUnchanged

\* the test of the error bits left out
NoErrorTest(current) == FALSE

\* errors = current & error_bits; if errors
HasErrors(current) == current \cap ErrorBits # {}

\* if (current & required_value == required_value)
HasRequired(current) == RequiredBits \subseteq current

\* One iteration of the loop of wait_ekf_happy, or the raise after the loop.
\* The clock is read for the loop test unless timeout is None, and once
\* more for the progress line.
WaitEkfHappy ==
    /\ wait.status = "running"
    /\ wait.p.fn \in {"wait_ekf_happy", "wait_ready_to_arm"}
    /\ \E t0 \in SimTimes(wait.now) :
          /\ wait.p.timeout = None => t0 = wait.now
          /\ LET w == IF wait.p.timeout = None THEN wait
                      ELSE [wait EXCEPT !.now = t0, !.tcheck = t0]
             IN IF wait.p.timeout # None
                   /\ ~LoopCondition(t0, wait.tstart, wait.p.timeout)
                THEN wait' = Raise(w, "AutoTestTimeoutException", "deadline")
                ELSE \E current \in EkfFlags, t1 \in SimTimes(t0) :
                       LET v == [w EXCEPT !.m = [flags |-> current], !.now = t1]
                       IN wait' = IF HasErrors(current)
                                  THEN v
                                  ELSE IF HasRequired(current)
                                  THEN Return(v, "True")
                                  ELSE v
    /\ OthersUnchanged

----------------------------------------------------------------------------
(* wait_altitude on a climb: the messages of the link, one after the other *)

\* altitudes (m) a climbing vehicle reports, one GLOBAL_POSITION_INT each
\* second
AltLevels == {0, 10, 20, 30, 40, 50, 55, 56, 60, 70}

RECURSIVE Climb(_)
Climb(S) ==
    IF S = {} THEN <<>>
    ELSE LET lo == CHOOSE x \in S : \A y \in S : x <= y
         IN <<lo>> \o Climb(S \ {lo})

AltStreams == {Climb(S) : S \in SUBSET AltLevels}

\* wait_altitude(50, 60, timeout=30) and the same call with a short timeout
ClimbCalls ==
    {[fn |-> "wait_altitude", alt_min |-> 50, alt_max |-> 60, timeout |-> T,
      relative |-> r] : T \in {3, 30}, r \in BOOLEAN}

\* The messages the vehicle sends: each second one SYSTEM_TIME and one
\* GLOBAL_POSITION_INT (altitudes in mm), the one or the other first. The
\* stream gives the altitude the call reads; the other altitude stays at 0.
Link(stream, relative, time_first) ==
    [i \in 1..(2 * Len(stream)) |->
        LET k == (i + 1) \div 2
        IN IF (i % 2 = 1) = time_first
           THEN [type |-> "SYSTEM_TIME", time_boot_ms |-> 1000 * k,
                 alt |-> 0, relative_alt |-> 0]
           ELSE [type |-> "GLOBAL_POSITION_INT", time_boot_ms |-> 0,
                 alt |-> IF relative THEN 0 ELSE 1000 * stream[k],
                 relative_alt |-> IF relative THEN 1000 * stream[k] ELSE 0]]

\* recv_match(type=..., blocking=True) passes over the messages of the other
\* types: what is left of the link from the first message of the type on
RECURSIVE RecvMatch(_, _)
RecvMatch(link, type) ==
    IF link = <<>> \/ Head(link).type = type THEN link
    ELSE RecvMatch(Tail(link), type)

\* return m.time_boot_ms * 1.0e-3
SimTimeOf(m) == m.time_boot_ms \div 1000

\* tstart = self.get_sim_time(), which takes the first SYSTEM_TIME of the
\* link (evaluated keeps the samples the loop has tested: history)
WaitAltitudeOnLinkStart(p, stream, time_first) ==
    /\ NoWaitRunning
    /\ LET link == RecvMatch(Link(stream, p.relative, time_first), "SYSTEM_TIME")
       IN /\ link # <<>>
          /\ wait' = [stream |-> stream, link |-> Tail(link), evaluated |-> <<>>]
                      @@ NewWait(p, SimTimeOf(Head(link)))
    /\ OthersUnchanged

\* One iteration of the loop of wait_altitude, or the raise after the loop:
\* get_sim_time() takes the next SYSTEM_TIME and recv_match the next
\* GLOBAL_POSITION_INT after it; both block while the link has none.
WaitAltitudeOnLink ==
    /\ wait.status = "running"
    /\ wait.p.fn = "wait_altitude"
    /\ LET timed == RecvMatch(wait.link, "SYSTEM_TIME")
       IN /\ timed # <<>>
          /\ LET t == SimTimeOf(Head(timed))
                 w == [wait EXCEPT !.now = t, !.tcheck = t, !.link = Tail(timed)]
                 pos == RecvMatch(Tail(timed), "GLOBAL_POSITION_INT")
             IN IF ~LoopCondition(t, wait.tstart, wait.p.timeout)
                THEN wait' = Raise(w, TimeoutKind("wait_altitude"), "deadline")
                ELSE /\ pos # <<>>
                     /\ LET m  == Head(pos)
                            ok == InTolerance(wait.p, m)
                            v  == [w EXCEPT !.m = m, !.link = Tail(pos),
                                            !.evaluated = Append(@, m),
                                            !.g = Seen(wait.g, ok, t, t)]
                        IN wait' = IF ok THEN Return(v, "True") ELSE v
    /\ OthersUnchanged

----------------------------------------------------------------------------
(* arm_motors_with_rc_input *)

\* timeout = 15
ArmTimeout == 15

\* the simulated clock of the arming loop: readings up to MaxArmTime, at
\* most MaxArmStep apart
MaxArmTime == 17

MaxArmStep == 6

ArmTimes(t) == {u \in t..MaxArmTime : u - t <= MaxArmStep}

\* set_throttle_zero(); mavproxy.send('rc 1 2000'); tstart = get_sim_time()
\* (rc1 is the stick input sent last)
ArmMotorsStart ==
    /\ NoWaitRunning
    /\ \E t \in 0..MaxStep :
          wait' = [status |-> "running",
                   p |-> [fn |-> "arm_motors_with_rc_input", timeout |-> ArmTimeout],
                   tstart |-> t, now |-> t, tcheck |-> None, m |-> NoSample,
                   rc1 |-> 2000, exc |-> "none", ret |-> "none"]
    /\ OthersUnchanged

\* One iteration of the loop of arm_motors_with_rc_input: the deadline
\* test, wait_heartbeat(), the test of motors_armed(); after the loop
\* 'rc 1 1500' and return False.
ArmMotorsWithRcInput ==
    /\ wait.status = "running"
    /\ wait.p.fn = "arm_motors_with_rc_input"
    /\ \E t0 \in ArmTimes(wait.now) :
          LET w == [wait EXCEPT !.now = t0, !.tcheck = t0]
          IN IF ~LoopCondition(t0, wait.tstart, wait.p.timeout)
             THEN wait' = Return([w EXCEPT !.rc1 = 1500], "False")
             ELSE \E motors_armed \in BOOLEAN, t1 \in ArmTimes(t0) :
                    LET v == [w EXCEPT !.m = [motors_armed |-> motors_armed]]
                    IN wait' = IF ~motors_armed
                               THEN Return([v EXCEPT !.now = t1, !.rc1 = 1500], "True")
                               ELSE v
    /\ OthersUnchanged

----------------------------------------------------------------------------
(* The context stack, called by harness code *)

NextParam ==
    \/ ContextPush
    \/ \E name \in Names, value \in Values : SetParameter(name, value)
    \/ ContextPop

SpecParam == Init /\ [][NextParam]_vars

(* set_parameter alone, with either add_to_context *)

NextSet ==
    \E name \in Names, value \in Values, add \in BOOLEAN :
       SetParameterCall(name, value, add)

SpecSet == Init /\ [][NextSet]_vars

(* set_parameter with either add_to_context, under pushed Contexts *)

NextFrame ==
    \/ ContextPush
    \/ \E name \in Names, value \in Values, add \in BOOLEAN :
          SetParameterCall(name, value, add)

SpecFrame == Init /\ [][NextFrame]_vars

(* Scenarios under run_test *)

NextRun ==
    \/ RunTestStart
    \/ RunTestPass
    \/ ScenarioRaise
    \/ RunTestExcept
    \/ phase = "test" /\ ContextPush
    \/ phase = "test" /\ \E name \in Names, value \in Values : SetParameter(name, value)
    \/ phase = "test" /\ ContextPop

SpecRun == Init /\ [][NextRun]_vars

(* run_cmd against a stream of acknowledgments *)

NextCmd ==
    \/ \E command \in Commands, want_result \in Results :
          RunCmdSend(command, want_result)
    \/ \E command \in Commands, result \in Results :
          RunCmdRecv([command |-> command, result |-> result])

SpecCmd == Init /\ [][NextCmd]_vars

(* The wait_* family against the telemetry and the simulated clock *)

NextWait ==
    \/ \E p \in ThresholdCalls \cup SustainedCalls \cup DistanceCalls : WaitStart(p)
    \/ WaitAltitude
    \/ WaitGroundspeed
    \/ WaitRoll
    \/ WaitPitch
    \/ WaitLocation
    \/ WaitHeading
    \/ WaitYawSpeed
    \/ WaitSpeedVector
    \/ WaitDistance
    \/ \E p \in WaypointCalls : WaitWaypointStart(p)
    \/ WaitWaypoint
    \/ \E p \in ModeCalls : WaitModeStart(p)
    \/ WaitMode
    \/ \E p \in EkfCalls : WaitEkfHappyStart(p)
    \/ WaitEkfHappy

SpecWait == Init /\ [][NextWait]_vars

(* run_test alone: scenarios that return or raise *)

NextRunner ==
    \/ RunTestStart
    \/ RunTestPass
    \/ ScenarioRaise
    \/ RunTestExcept

SpecRunner == Init /\ [][NextRunner]_vars

(* arming with the radio *)

NextArm ==
    \/ ArmMotorsStart
    \/ ArmMotorsWithRcInput

SpecArm == Init /\ [][NextArm]_vars

(* wait_altitude on the messages of a climb *)

NextClimb ==
    \/ \E p \in ClimbCalls, stream \in AltStreams, time_first \in BOOLEAN :
          WaitAltitudeOnLinkStart(p, stream, time_first)
    \/ WaitAltitudeOnLink

SpecClimb == Init /\ [][NextClimb]_vars

----------------------------------------------------------------------------
(* Properties *)

\* a context_pop step that removed a Context
PopStep == Len(contexts') = Len(contexts) - 1

\* the Context on top, and what was known when it was pushed
Top == contexts[Len(contexts)]

TopHist == hist[Len(hist)]

RecordedNames(ctx) == {ctx[k].name : k \in DOMAIN ctx}

\* C1: once run_test has returned after a scenario that raised, no Context
\* a scenario pushed is left with changes to undo: the parameters hold the
\* values they had at its push (every set_parameter since having succeeded,
\* with the previous value read).
C1_RunTestRestores ==
    (phase = "idle" /\ fail_list # <<>>) =>
        \A k \in 2..Len(hist) :
            (/\ ~hist[k].dirty
             /\ \A j \in DOMAIN contexts[k] : contexts[k][j].old # None)
            => param = hist[k].snap

\* C2: round trip. When context_pop returns after successful recorded
\* set_parameter calls in its Context, every parameter the Context recorded
\* holds the value it had when the Context was pushed.
C2_RoundTrip ==
    [][(PopStep /\ exc' = "none" /\ ~TopHist.dirty) =>
          \A n \in RecordedNames(Top) : param'[n] = TopHist.snap[n]]_vars

\* C2 witness: a pop returned that restored a parameter written twice in the
\* Context, and the parameter does not hold the prior value of the last write.
C2_Witness ==
    /\ last.op = "context_pop" /\ last.kind = "return"
    /\ Len(last.order) >= 2
    /\ last.order[1].name = last.order[2].name
    /\ last.order[1].old # last.order[2].old
    /\ param[last.order[1].name] = last.order[Len(last.order)].old
    /\ hist # <<>> /\ ~hist[1].dirty

\* C3: nested Contexts restore in LIFO order. Popping a Context pushed above
\* another pushed Context brings the parameters back to their values at the
\* inner push and leaves the Contexts below exactly as they were then, so
\* the outer pop still restores the values of the outer push.
C3_NestedLifo ==
    [][(PopStep /\ exc' = "none" /\ ~TopHist.dirty /\ Len(contexts) >= 2) =>
          /\ param' = TopHist.snap
          /\ contexts' = TopHist.below]_vars

\* C3 witness: an inner pop returned, it restored something, and the outer
\* Context still holds a pair whose value differs from the present one.
C3_Witness ==
    /\ last.op = "context_pop" /\ last.kind = "return"
    /\ Len(last.order) >= 1
    /\ Len(contexts) >= 2
    /\ ~hist[Len(hist)].dirty
    /\ contexts[Len(contexts)] # <<>>
    /\ param # hist[Len(hist)].snap
    /\ param[last.order[1].name] = last.order[Len(last.order)].old

\* C4: when a restore fails with the write-mismatch error during
\* context_pop, set_parameter has still been called for every pair the
\* Context recorded.
C4_BestEffort ==
    (last.op = "context_pop" /\ last.kind = "ValueError") =>
        Len(last.order) = last.n

\* C5: no Context holds two pairs with the same parameter name.
C5_OnePairPerName ==
    \A c \in DOMAIN contexts :
        \A j, k \in DOMAIN contexts[c] :
            contexts[c][j].name = contexts[c][k].name => j = k

RECURSIVE IsPrefix(_, _)
IsPrefix(s, t) ==
    \/ s = <<>>
    \/ /\ t # <<>>
       /\ Head(s) = Head(t)
       /\ IsPrefix(Tail(s), Tail(t))

\* C6: context_pop removes the current Context, hands its pairs to
\* set_parameter in reverse order of recording (all of them when it
\* returns), and leaves every Context below without a new pair.
C6_PopReverseNoRecord ==
    [][PopStep =>
          /\ contexts' = SubSeq(contexts, 1, Len(contexts) - 1)
          /\ IsPrefix(last'.order, Reverse(Top))
          /\ exc' = "none" => last'.order = Reverse(Top)]_vars

\* C6 witness: a pop handed two different pairs to set_parameter and a
\* Context remains below.
C6_Witness ==
    /\ last.op = "context_pop"
    /\ Len(last.order) >= 2
    /\ last.order[1] # last.order[2]
    /\ contexts # <<>>

\* C7: context_push immediately followed by context_pop calls set_parameter
\* for nothing (no write reaches the vehicle), returns, and leaves the
\* parameters and the rest of the stack as they were before the push.
C7_PushPopNoOp ==
    [][(last.op = "context_push" /\ PopStep) =>
          /\ last'.order = <<>>
          /\ exc' = "none"
          /\ param' = param /\ param' = TopHist.snap
          /\ contexts' = TopHist.below]_vars

\* C7 witness: a pop that directly followed a push returned, below other
\* Contexts that hold pairs.
C7_Witness ==
    /\ last.op = "context_pop" /\ last.prev = "context_push"
    /\ last.kind = "return"
    /\ NumRecords(contexts) >= 1

\* C8: set_parameter returns normally only after a read-back, made after at
\* least one write, that equals the written value; the vehicle then holds
\* that value.
C8_ReturnMeansReadBack ==
    (last.op = "set_parameter" /\ last.kind = "return") =>
        /\ last.i >= 1
        /\ last.rv = last.value
        /\ param[last.name] = last.value

\* C8 witness: the call returned after a write that did not take at first.
C8_Witness ==
    /\ last.op = "set_parameter" /\ last.kind = "return"
    /\ last.i >= 2

\* C9: set_parameter never makes more than 9 write/read-back attempts; it
\* raises the write-mismatch error exactly after 9 attempts whose read-backs
\* all differed, and the error is on its way to the caller.
C9_BoundedRetry ==
    last.op = "set_parameter" =>
        /\ last.i \in 1..9
        /\ last.kind \in {"return", "ValueError", "IndexError"}
        /\ last.kind = "ValueError" =>
              /\ last.i = 9
              /\ last.rv # last.value
              /\ exc = "ValueError"

\* C9 witness: nine attempts were made and the call raised.
C9_Witness ==
    /\ last.op = "set_parameter" /\ last.kind = "ValueError"
    /\ last.i = 9

\* C10: an acknowledgment for another command never resolves run_cmd: after
\* reading one, whatever its result, run_cmd is still waiting; and a run_cmd
\* that ended was ended by an acknowledgment for its own command.
C10_ForeignAckIgnored ==
    /\ (cmd.status = "waiting" \/ cmd.status = "returned" \/ cmd.status = "raised") =>
          (cmd.acks > 0 /\ cmd.m.command # cmd.command => cmd.status = "waiting")
    /\ (cmd.status = "returned" \/ cmd.status = "raised") =>
          (cmd.acks > 0 /\ cmd.m.command = cmd.command)

\* C10 witness: run_cmd read an acknowledgment for another command carrying
\* the awaited result, and one carrying another result, and is waiting.
C10_Witness ==
    /\ cmd.status = "waiting"
    /\ cmd.acks >= 2
    /\ cmd.m.command # cmd.command
    /\ cmd.m.result = cmd.want_result

\* C11: the first acknowledgment for its own command ends run_cmd at once:
\* it returns when the result is want_result and raises otherwise; the
\* command has been sent exactly once, and once run_cmd has ended nothing
\* is read or sent until the next call.
C11_MatchingAckEnds ==
    [][/\ (cmd.status = "waiting" /\ cmd' # cmd) =>
             /\ cmd'.sent = 1
             /\ cmd'.acks = cmd.acks + 1
             /\ cmd'.m.command = cmd.command =>
                   cmd'.status = IF cmd'.m.result = cmd.want_result
                                 THEN "returned" ELSE "raised"
       /\ ((cmd.status = "returned" \/ cmd.status = "raised") /\ cmd' # cmd) =>
             /\ cmd'.status = "waiting"
             /\ cmd'.sent = 1
             /\ cmd'.acks = 0]_vars

\* C11 witness: run_cmd raised on the first acknowledgment for its command,
\* which came after one for another command, having sent the command once.
C11_Witness ==
    /\ cmd.status = "raised"
    /\ cmd.acks = 2
    /\ cmd.sent = 1
    /\ cmd.m.command = cmd.command
    /\ cmd.m.result # cmd.want_result

\* the waits that take the first matching sample: minimum sustain 0
ZeroSustainWait ==
    /\ wait.status # "none"
    /\ wait.p.fn \in {"wait_altitude", "wait_groundspeed", "wait_roll",
                      "wait_pitch", "wait_location", "wait_heading"}
    /\ MinSustain(wait.p) = 0

\* C12: a wait with minimum sustain 0 that evaluated a matching sample
\* before its deadline does not end with its timeout failure.
C12_MatchBeforeDeadline ==
    (ZeroSustainWait /\ wait.status = "raised" /\ wait.cause = "deadline") =>
        wait.g.firstok = None

SustainedWait ==
    /\ wait.status # "none"
    /\ wait.p.fn \in {"wait_heading", "wait_yaw_speed", "wait_speed_vector"}
    /\ wait.p.maintain_target_time > 0

\* C13: reset-on-break. A sustained wait with minimum sustain S > 0 succeeds
\* only when the samples evaluated since the last one out of tolerance all
\* matched and span at least S seconds of the simulated clock (from the
\* reading before the first of them to the reading that ends the wait);
\* otherwise it ends with the timeout failure of its kind.
C13_ResetOnBreak ==
    SustainedWait =>
        /\ wait.status = "returned" =>
              /\ wait.g.runstart # None
              /\ wait.now - wait.g.runstart >= wait.p.maintain_target_time
        /\ wait.status = "raised" =>
              /\ wait.exc = TimeoutKind(wait.p.fn)
              /\ wait.cause = "deadline"

\* C13 witness: a sustained wait timed out although matching samples before
\* and after a sample out of tolerance together span more than S.
C13_Witness ==
    /\ SustainedWait
    /\ wait.status = "raised"
    /\ wait.g.broke
    /\ wait.g.runstart # None
    /\ wait.g.runstart > wait.g.firstok
    /\ wait.g.lastok - wait.g.firstok > wait.p.maintain_target_time

\* C14: every wait terminates once simulated time advances far enough: a
\* wait that is still running has a deadline, and the clock reading of its
\* last deadline test had not passed that deadline.
C14_WaitsEnd ==
    wait.status = "running" =>
        /\ wait.p.timeout # None
        /\ wait.tcheck # None => wait.tcheck <= wait.tstart + wait.p.timeout

\* C15: deadlines are measured on the simulated clock. A wait takes the
\* exit of its expired deadline only on a clock reading t with
\* t - tstart >= timeout, tstart being its start or, for wait_waypoint, the
\* last restart of the leg.
C15_DeadlineInSimTime ==
    (wait.status = "raised" /\ wait.cause = "deadline") =>
        /\ wait.p.timeout # None
        /\ wait.tcheck # None
        /\ wait.tcheck = wait.now
        /\ wait.tcheck - wait.tstart >= wait.p.timeout

\* C15 witness: a wait evaluated several samples while the clock stood at
\* its start time, and expired on the first reading that reached the
\* deadline.
C15_Witness ==
    /\ wait.status = "raised" /\ wait.cause = "deadline"
    /\ wait.p.fn = "wait_heading"
    /\ wait.counter >= 2
    /\ wait.duration_start = wait.tstart
    /\ wait.tcheck - wait.tstart = wait.p.timeout

\* the waits that have a timeout failure of their own
KindedWaits ==
    {"wait_altitude", "wait_groundspeed", "wait_roll", "wait_pitch",
     "wait_heading", "wait_yaw_speed", "wait_speed_vector", "wait_distance",
     "wait_location", "wait_waypoint", "wait_mode"}

\* C16: a wait whose deadline expired raises the failure kind of its own
\* condition, the kinds of the eleven conditions differ from one another,
\* and no wait ever raises the timeout kind of another condition.
C16_OwnTimeoutKind ==
    (wait.status = "raised" /\ wait.p.fn \in KindedWaits) =>
        /\ wait.cause = "deadline" => wait.exc = TimeoutKind(wait.p.fn)
        /\ \A other \in KindedWaits \ {wait.p.fn} :
              wait.exc # TimeoutKind(other)

\* C16 witness: wait_pitch expired and raised the pitch timeout.
C16_Witness ==
    /\ wait.status = "raised" /\ wait.cause = "deadline"
    /\ wait.p.fn = "wait_pitch"
    /\ wait.exc = "WaitPitchTimeout"
    /\ wait.m # NoSample

DistanceWait ==
    /\ wait.status # "none"
    /\ wait.p.fn = "wait_distance"
    /\ wait.m # NoSample

\* C17: the last sample wait_distance evaluated decides: beyond
\* distance + accuracy the wait has failed at once, before its deadline;
\* within accuracy of the distance it has returned success; below
\* distance - accuracy it goes on, and fails only when the deadline expires.
C17_OvershootFailsFast ==
    DistanceWait =>
        LET delta == wait.m.delta
            p     == wait.p
        IN /\ delta > p.distance + p.accuracy =>
                 /\ wait.status = "raised"
                 /\ wait.cause = "overshoot"
                 /\ wait.tcheck - wait.tstart < p.timeout
           /\ Abs(delta - p.distance) <= p.accuracy =>
                 (wait.status = "returned" /\ wait.ret = "True")
           /\ delta < p.distance - p.accuracy =>
                 \/ wait.status = "running"
                 \/ (wait.status = "raised" /\ wait.cause = "deadline")

\* C17 witness: wait_distance failed on an overshoot after the clock had
\* advanced, before the deadline.
C17_Witness ==
    /\ DistanceWait
    /\ wait.status = "raised" /\ wait.cause = "overshoot"
    /\ wait.m.delta > wait.p.distance + wait.p.accuracy
    /\ wait.tcheck > wait.tstart
    /\ wait.tcheck < wait.tstart + wait.p.timeout

\* C18: the failure wait_distance raises on an overshoot is of another kind
\* than the one it raises when its deadline expires.
C18_OvershootKind ==
    (DistanceWait /\ wait.status = "raised" /\ wait.cause = "overshoot") =>
        wait.exc # TimeoutKind("wait_distance")

WaypointWait ==
    /\ wait.status # "none"
    /\ wait.p.fn = "wait_waypoint"
    /\ wait.m # NoSample

\* a step of wait_waypoint with allow_skip=False that evaluated a sample
\* whose index is beyond the one after current_wp
SkipStep ==
    /\ wait.status = "running"
    /\ wait.p.fn = "wait_waypoint"
    /\ ~wait.p.allow_skip
    /\ wait'.cause # "deadline"
    /\ wait'.m.seq > wait.current_wp + 1

\* C19 as claimed: with allow_skip=False the wait raises its failure as soon
\* as it observes an index greater than current_wp + 1.
C19_SkipRaises ==
    [][SkipStep =>
          (wait'.status = "raised" /\ wait'.exc = "WaitWaypointTimeout")]_vars

\* C19 amended: with allow_skip=False the wait raises its failure as soon as
\* it observes an index greater than current_wp + 1, before the deadline,
\* unless that observation meets a test for success (the index is the
\* sentinel 255 or more, or current_wp is wpnum_end and the waypoint
\* distance is below max_dist); with the mode unchanged the failure is the
\* one of the skipped waypoint, and current_wp stays as it was.
C19_SkipRaisesUnlessSuccess ==
    [][(/\ SkipStep
        /\ wait'.m.seq < 255
        /\ ~(wait.current_wp = wait.p.wpnum_end
             /\ wait'.m.wp_dist < wait.p.max_dist)) =>
          /\ wait'.status = "raised"
          /\ wait'.exc = "WaitWaypointTimeout"
          /\ wait'.current_wp = wait.current_wp
          /\ wait'.tcheck - wait'.tstart < wait.p.timeout
          /\ wait'.m.flightmode = wait.mode => wait'.cause = "skipped"]_vars

\* C19 witness: a wait from leg 3 to leg 3 with allow_skip=False, standing at
\* index 3, observed index 5 after the clock had advanced and raised the
\* skipped-waypoint failure.
C19_Witness ==
    /\ WaypointWait
    /\ ~wait.p.allow_skip
    /\ wait.p.wpnum_start = 3 /\ wait.p.wpnum_end = 3
    /\ wait.current_wp = 3
    /\ wait.m.seq = 5
    /\ wait.tcheck > wait.tstart
    /\ wait.status = "raised" /\ wait.cause = "skipped"

\* C20: on the first tick that finds the flight mode different from the
\* mode captured at the start, wait_waypoint has failed at once, before the
\* deadline, and has not returned success.
C20_ModeChangeFails ==
    (WaypointWait /\ wait.m.flightmode # wait.mode) =>
        /\ wait.status = "raised"
        /\ wait.cause = "mode"
        /\ wait.exc = "WaitWaypointTimeout"
        /\ wait.tcheck - wait.tstart < wait.p.timeout

\* C20 witness: the mode changed on a tick that also reported the final
\* index within max_dist, and the wait failed.
C20_Witness ==
    /\ WaypointWait
    /\ wait.m.flightmode # wait.mode
    /\ wait.m.seq = wait.p.wpnum_end
    /\ wait.m.wp_dist < wait.p.max_dist
    /\ wait.tcheck > wait.tstart
    /\ wait.status = "raised"

\* C21: in wait_waypoint a sample with the next waypoint index, or with a
\* higher one when allow_skip is set, makes current_wp the observed index
\* and restarts the deadline of the leg at the simulated time read then;
\* any other sample leaves both as they were, and the wait raises on the
\* deadline only when the clock read timeout or more past the last restart.
C21_AdvanceRestartsLeg ==
    [][(WaypointWait /\ wait.status = "running") =>
         IF wait'.cause = "deadline"
         THEN /\ wait'.status = "raised"
              /\ wait'.tstart = wait.tstart
              /\ wait'.tcheck - wait.tstart >= wait.p.timeout
         ELSE IF wait'.m.flightmode # wait.mode
         THEN wait'.tstart = wait.tstart /\ wait'.current_wp = wait.current_wp
         ELSE IF \/ wait'.m.seq = wait.current_wp + 1
                 \/ (wait'.m.seq > wait.current_wp + 1 /\ wait.p.allow_skip)
         THEN /\ wait'.current_wp = wait'.m.seq
              /\ wait'.tstart = wait'.now
              /\ wait'.tstart >= wait'.tcheck
         ELSE wait'.tstart = wait.tstart /\ wait'.current_wp = wait.current_wp
      ]_vars

\* a wait_waypoint that advanced to another waypoint after its start, with
\* a later clock reading, and raised on the deadline a full timeout after
\* that restart
C21_Witness ==
    /\ WaypointWait
    /\ wait.status = "raised"
    /\ wait.cause = "deadline"
    /\ wait.current_wp # wait.start_wp
    /\ wait.tstart > wait.began
    /\ wait.tcheck - wait.tstart = wait.p.timeout
    /\ wait.tcheck - wait.began > wait.p.timeout

\* C22: wait_waypoint returns (True) only on a sample with current_wp, after
\* the advance of that sample, equal to wpnum_end and wp_dist below
\* max_dist, or on a sample whose index is the sentinel 255 or more.
C22_SuccessOnlyFinalOrSentinel ==
    (WaypointWait /\ wait.status = "returned") =>
        /\ wait.ret = "True"
        /\ \/ (wait.current_wp = wait.p.wpnum_end /\ wait.m.wp_dist < wait.p.max_dist)
           \/ wait.m.seq >= 255

\* a wait_waypoint that advanced from 3 to its last waypoint 5 and returned
\* there, below max_dist and with no sentinel
C22_Witness ==
    /\ WaypointWait
    /\ wait.status = "returned"
    /\ wait.start_wp = 3
    /\ wait.current_wp = 5
    /\ wait.p.wpnum_end = 5
    /\ wait.m.seq = 5
    /\ wait.m.wp_dist < wait.p.max_dist

EkfWait == wait.status # "none" /\ wait.p.fn \in {"wait_ekf_happy", "wait_ready_to_arm"}

\* C23: wait_ekf_happy returns (True) on an EKF status sample exactly when
\* the flags of the sample hold every required bit and no error bit: the
\* last sample of a wait that returned is such a sample, and the last sample
\* of a wait that goes on, or that raised, is not.
C23_SuccessIffHealthy ==
    (EkfWait /\ wait.m # NoSample) =>
        /\ wait.status = "returned" <=>
               /\ \A b \in RequiredBits : b \in wait.m.flags
               /\ \A b \in ErrorBits : b \notin wait.m.flags
        /\ wait.status = "returned" => wait.ret = "True"

\* a wait that goes on after a sample with every required bit and the
\* GPS glitch bit
C23_Witness ==
    /\ EkfWait
    /\ wait.status = "running"
    /\ wait.m # NoSample
    /\ wait.m.flags = RequiredBits \cup {"ESTIMATOR_GPS_GLITCH"}

\* C24: with AHRS_EKF_TYPE equal to 10, wait_ekf_happy and wait_ready_to_arm
\* return True at once: no estimator sample has been read and the clock has
\* not been read either.
C24_SitlEstimatesReturnAtOnce ==
    (EkfWait /\ wait.ekf_type = 10) =>
        /\ wait.status = "returned"
        /\ wait.ret = "True"
        /\ wait.m = NoSample
        /\ wait.tstart = None
        /\ wait.tcheck = None

\* wait_ready_to_arm called with AHRS_EKF_TYPE at 10 has returned
C24_Witness ==
    /\ EkfWait
    /\ wait.p.fn = "wait_ready_to_arm"
    /\ wait.ekf_type = 10
    /\ wait.status = "returned"

\* the altitude (mm) wait_altitude reads from a sample
AltOf(m) == IF wait.p.relative THEN m.relative_alt ELSE m.alt

ClimbWait == wait.status # "none" /\ wait.p.fn = "wait_altitude"

\* the stream 0,10,...,55,56 read as 0, 10, 20, 30, 40, 55, 56
ClimbScenario == wait.stream = <<0, 10, 20, 30, 40, 55, 56>> /\ wait.p.timeout = 30

\* C25: wait_altitude returns (True) at the first sample it evaluates whose
\* altitude is in [alt_min, alt_max], both ends included, and at no earlier
\* one: no sample before the last evaluated is in the range, and the wait
\* has returned exactly when the last one is. Called for [50, 60] with
\* timeout 30 on the climb 0, 10, 20, 30, 40, 55, 56 at 1 Hz it does not
\* raise, it still has the sample 55 to come while it runs, and it returns
\* on the sample 55.
C25_FirstSampleInRange ==
    ClimbWait =>
        LET n == Len(wait.evaluated)
            InRange(m) == /\ AltOf(m) >= 1000 * wait.p.alt_min
                          /\ AltOf(m) <= 1000 * wait.p.alt_max
        IN /\ \A i \in 1..(n - 1) : ~InRange(wait.evaluated[i])
           /\ wait.status = "returned" <=> (n > 0 /\ InRange(wait.evaluated[n]))
           /\ wait.status = "returned" => wait.ret = "True" /\ wait.m = wait.evaluated[n]
           /\ ClimbScenario =>
                 /\ wait.status # "raised"
                 /\ wait.status = "returned" => AltOf(wait.m) = 55000
                 /\ wait.status = "running" =>
                       \E i \in 1..Len(wait.link) :
                          /\ wait.link[i].type = "GLOBAL_POSITION_INT"
                          /\ AltOf(wait.link[i]) = 55000

\* the call of the scenario has returned on the sample 55 after it had
\* evaluated lower samples
C25_Witness ==
    /\ ClimbWait
    /\ ClimbScenario
    /\ wait.p.alt_min = 50
    /\ wait.p.alt_max = 60
    /\ wait.status = "returned"
    /\ Len(wait.evaluated) > 1
    /\ AltOf(wait.m) = 55000

\* C26: when the scenario function raised, run_test adds exactly one entry
\* (description, failure) at the end of the fail list and returns with no
\* exception left, so the next run_test can start; when the function
\* returned, and in every other step, the fail list stays as it is. So the
\* list holds the failed scenarios only, in the order they ran.
C26_FailListExact ==
    [][/\ IF phase = "test" /\ phase' = "idle" /\ exc # "none"
          THEN /\ fail_list' = Append(fail_list, [desc |-> ntests, e |-> exc])
               /\ exc' = "none"
               /\ ntests' = ntests
          ELSE fail_list' = fail_list
       /\ \A i \in 1..Len(fail_list') :
             /\ fail_list'[i].desc \in 1..ntests'
             /\ fail_list'[i].e \in Failures
             /\ \A j \in 1..(i - 1) : fail_list'[j].desc < fail_list'[i].desc
      ]_vars

\* three scenarios have run: the first and the third raised, with failures
\* of two kinds, and the second returned
C26_Witness ==
    /\ phase = "idle"
    /\ ntests = 3
    /\ exc = "none"
    /\ Len(fail_list) = 2
    /\ fail_list[1].desc = 1
    /\ fail_list[2].desc = 3
    /\ fail_list[1].e # fail_list[2].e

\* C27: the failure a wait raises on its deadline, after it has evaluated a
\* sample, carries besides its kind the last observed value and the target
\* value.
C27_FailureCarriesValues ==
    (wait.status = "raised" /\ wait.cause = "deadline" /\ wait.m # NoSample)
        => Len(wait.args) >= 2

\* the waits C28 names; wait_ready_to_arm returns what wait_ekf_happy returns
OutcomeWaits ==
    {"wait_altitude", "wait_groundspeed", "wait_roll", "wait_pitch",
     "wait_heading", "wait_yaw_speed", "wait_speed_vector", "wait_distance",
     "wait_location", "wait_waypoint", "wait_ekf_happy", "wait_ready_to_arm"}

\* C28: each of these waits ends only by returning True or by raising an
\* exception of a class: the timeout class of the wait, or TypeError out of
\* int() when wait_ekf_happy could not read AHRS_EKF_TYPE. None returns
\* False or None, and a wait that has not ended has produced neither.
C28_TrueOrRaise ==
    (wait.status # "none" /\ wait.p.fn \in OutcomeWaits) =>
        /\ wait.status \in {"running", "returned", "raised"}
        /\ wait.status = "running" => wait.ret = "none" /\ wait.exc = "none"
        /\ wait.status = "returned" => wait.ret = "True" /\ wait.exc = "none"
        /\ wait.status = "raised" =>
              /\ wait.ret = "none"
              /\ wait.exc \in {TimeoutKind(wait.p.fn), "TypeError"}

\* wait_location has returned True on a sample near enough and at the right
\* height, after a sample that was not
C28_Witness ==
    /\ wait.status = "returned"
    /\ wait.p.fn = "wait_location"
    /\ wait.p.height_accuracy = 0
    /\ wait.ret = "True"
    /\ wait.tcheck > wait.tstart

AnySustainedWait ==
    /\ wait.status # "none"
    /\ wait.p.fn \in {"wait_heading", "wait_yaw_speed", "wait_speed_vector"}

\* C29: a sustained wait returns as soon as it has evaluated a matching
\* sample with the simulated time since the start of the present run of
\* matches at or above maintain_target_time: a wait that goes on after a
\* matching sample has read a time below maintain_target_time since that
\* start.
C29_BoundaryAccepted ==
    (AnySustainedWait /\ wait.status = "running" /\ wait.duration_start # None) =>
        wait.now - wait.duration_start < wait.p.maintain_target_time

RECURSIVE RunSum(_, _)
RunSum(run, zero) ==
    IF run = <<>> THEN zero
    ELSE AddTo(RunSum(SubSeq(run, 1, Len(run) - 1), zero), run[Len(run)])

\* C30: in wait_heading, wait_yaw_speed and wait_speed_vector a sample out of
\* tolerance empties the sums, the counter and the start of the run; so at
\* every iteration the counter is the number of matching samples evaluated
\* since the last sample out of tolerance, the sums are the sums of those
\* samples, and duration_start is empty exactly when the counter is 0.
C30_RunBookkeeping ==
    AnySustainedWait =>
        /\ wait.counter = Len(wait.run)
        /\ wait.mean = RunSum(wait.run, ZeroMean(wait.p))
        /\ wait.duration_start = None <=> wait.counter = 0
        /\ (wait.m # NoSample /\ ~InTolerance(wait.p, wait.m)) =>
              /\ wait.counter = 0
              /\ wait.mean = ZeroMean(wait.p)
              /\ wait.duration_start = None
        /\ (wait.m # NoSample /\ InTolerance(wait.p, wait.m)) =>
              /\ wait.counter > 0
              /\ wait.run[Len(wait.run)] = Observed(wait.p, wait.m)

\* a wait goes on with two matching samples counted and summed after a
\* sample out of tolerance had emptied an earlier run
C30_Witness ==
    /\ AnySustainedWait
    /\ wait.status = "running"
    /\ wait.g.broke
    /\ wait.counter = 2
    /\ wait.mean # ZeroMean(wait.p)
    /\ wait.duration_start # None

\* a sustained wait that was given a per-tick action
TickedWait == AnySustainedWait /\ wait.p.the_function

\* C31: a per-tick action given to wait_heading, wait_yaw_speed or
\* wait_speed_vector is invoked once in every iteration that passed the
\* deadline test, before the sample of that iteration is received, and not
\* in the iteration that finds the deadline passed; a wait that has ended
\* takes no further step, and a wait given no action invokes none.
C31_ActionOncePerIteration ==
    [][/\ (AnySustainedWait /\ wait.status = "running" /\ wait.p.the_function) =>
            IF wait'.cause = "deadline"
            THEN wait'.calls = wait.calls /\ wait'.recvs = wait.recvs
            ELSE /\ wait'.tcheck < wait.tstart + wait.p.timeout
                 /\ wait'.calls = wait.calls + 1
                 /\ wait'.recvs_at_call = wait.recvs
                 /\ wait'.recvs = wait.recvs + 1
       /\ (AnySustainedWait /\ wait.status = "running" /\ ~wait.p.the_function) =>
            wait'.calls = 0
       /\ (AnySustainedWait /\ wait.status \in {"returned", "raised"}) =>
            wait' = wait
      ]_vars

\* a wait with a per-tick action has raised on its deadline after two
\* iterations, each with one invocation before its sample
C31_Witness ==
    /\ TickedWait
    /\ wait.status = "raised"
    /\ wait.cause = "deadline"
    /\ wait.calls = 2
    /\ wait.recvs = 2
    /\ wait.recvs_at_call = 1

\* the angular distance of two headings, modulo 360
ModDist(a, b) ==
    LET d == Abs(a - b) % 360
    IN IF d > 180 THEN 360 - d ELSE d

\* C32: wait_heading takes a sample as in tolerance (it counts it in the
\* present run of matches) exactly when the angular distance modulo 360
\* between the sampled heading and the target is at most accuracy.
C32_HeadingModuloDistance ==
    (wait.status # "none" /\ wait.p.fn = "wait_heading" /\ wait.m # NoSample) =>
        (wait.counter > 0 <=>
            ModDist(wait.m.heading, wait.p.heading) <= wait.p.accuracy)

\* C33: arm_motors_with_rc_input returns True only after a heartbeat on
\* which it saw the motors armed, before 15 simulated seconds had passed
\* since the stick input; it returns False when it saw them armed on no
\* heartbeat of that window.
C33_ArmedBeforeSuccess ==
    (wait.status = "returned" /\ wait.p.fn = "arm_motors_with_rc_input") =>
        IF wait.ret = "True"
        THEN /\ wait.m # NoSample
             /\ wait.m.motors_armed
             /\ wait.tcheck < wait.tstart + 15
        ELSE /\ wait.ret = "False"
             /\ wait.m # NoSample => ~wait.m.motors_armed

\* C34: when set_parameter raises the write-mismatch error, either the
\* vehicle still holds the value the parameter had before the call, or the
\* current Context holds a pair for the parameter.
C34_MismatchLeavesNoLeak ==
    [][(last'.op = "set_parameter" /\ last'.kind = "ValueError") =>
          \/ param'[last'.name] = param[last'.name]
          \/ /\ contexts' # <<>>
             /\ \E k \in DOMAIN contexts'[Len(contexts')] :
                   contexts'[Len(contexts')][k].name = last'.name
      ]_vars

\* C35: the depth of the context stack is 1 + pushes - pops: it is 1 after
\* construction, every context_push adds one empty Context, every
\* context_pop removes one Context, also when its restore raises, and
\* set_parameter leaves the depth as it is.
C35_DepthCountsCalls ==
    [][/\ last'.op = "context_push" => contexts' = Append(contexts, <<>>)
       /\ last'.op = "context_pop" => Len(contexts') = Len(contexts) - 1
       /\ last'.op = "none" => Len(contexts') = Len(contexts)
      ]_vars

\* C35 as amended: every context_push adds one empty Context; a context_pop
\* on a stack that holds a Context removes exactly the newest one, also when
\* its restore raises, and nothing below changes; a context_pop on an empty
\* stack raises IndexError and removes nothing; set_parameter leaves the
\* depth as it is.
C35_DepthCountsRemovals ==
    [][/\ last'.op = "context_push" => contexts' = Append(contexts, <<>>)
       /\ (last'.op = "context_pop" /\ contexts # <<>>) =>
             /\ contexts' = SubSeq(contexts, 1, Len(contexts) - 1)
             /\ last'.kind \in {"return", "ValueError", "TypeError"}
       /\ (last'.op = "context_pop" /\ contexts = <<>>) =>
             /\ contexts' = contexts
             /\ exc' = "IndexError"
       /\ last'.op = "none" => Len(contexts') = Len(contexts)
      ]_vars

\* a context_pop raised the write-mismatch error before it had handed every
\* pair to set_parameter, and its Context is gone from the stack
C35_Witness ==
    /\ last.op = "context_pop"
    /\ last.kind = "ValueError"
    /\ Len(last.order) < last.n
    /\ exc = "ValueError"
    /\ Len(contexts) >= 1

\* C36: set_parameter changes at most the topmost Context. A call with
\* add_to_context=True that returns appends exactly one pair, for its
\* parameter, to the current Context and leaves every Context below as it
\* was; a call with add_to_context=False, or a call that raises, leaves
\* every Context as it was.
C36_OnlyTopContext ==
    [][last'.op = "set_parameter" =>
          IF last'.kind = "return" /\ last'.add
          THEN /\ Len(contexts') = Len(contexts)
               /\ \A k \in 1..(Len(contexts) - 1) : contexts'[k] = contexts[k]
               /\ Len(contexts'[Len(contexts)]) = Len(Top) + 1
               /\ SubSeq(contexts'[Len(contexts)], 1, Len(Top)) = Top
               /\ contexts'[Len(contexts)][Len(Top) + 1].name = last'.name
          ELSE contexts' = contexts
      ]_vars

\* a recording call returned and left its pair in the topmost Context, above
\* a Context that holds the pair of an earlier call
C36_Witness ==
    /\ last.op = "set_parameter"
    /\ last.kind = "return"
    /\ last.add
    /\ Len(contexts) >= 2
    /\ Len(contexts[Len(contexts)]) = 1
    /\ Len(contexts[Len(contexts) - 1]) = 1

\* C37: every pair recorded in a Context holds a number the vehicle reported
\* for the parameter before the write; no pair holds the empty value (None)
\* of a read that timed out.
C37_PairsHoldReportedValues ==
    \A c \in DOMAIN contexts :
        \A k \in DOMAIN contexts[c] :
            /\ contexts[c][k].old # None
            /\ contexts[c][k].old \in Values

\* C38: run_cmd ends exactly on an acknowledgment for its own command. It has
\* no deadline: each acknowledgment it reads while it waits either is for
\* its command, and then the call returns or raises, or is for another
\* command, and then the call goes on waiting without raising, however
\* many it has read; with no acknowledgment to read it takes no step.
C38_EndsOnlyOnMatchingAck ==
    [][(cmd.status = "waiting" /\ cmd' # cmd) =>
          /\ cmd'.command = cmd.command
          /\ cmd'.acks = cmd.acks + 1
          /\ (cmd'.status \in {"returned", "raised"}) <=> (cmd'.m.command = cmd.command)
          /\ cmd'.m.command # cmd.command => cmd'.status = "waiting"
      ]_vars

\* run_cmd is still waiting after as many acknowledgments as the model
\* delivers, none of them for its command
C38_Witness ==
    /\ cmd.status = "waiting"
    /\ cmd.acks = MaxAcks
    /\ cmd.m.command # cmd.command

\* C39: in wait_waypoint current_wp starts at the index the vehicle reports,
\* whatever wpnum_start is, and never decreases; a sample whose index is at
\* or below current_wp leaves current_wp and the deadline of the leg as they
\* are and decides nothing by its index: the wait raises on it only for a
\* mode change and returns on it only for wp_dist below max_dist at the last
\* waypoint.
C39_IndexNeverDecreases ==
    [][/\ (wait.status = "none" /\ wait'.status # "none"
                                /\ wait'.p.fn = "wait_waypoint") =>
             wait'.current_wp = wait'.start_wp
       /\ (WaypointWait /\ wait.status = "running") =>
             /\ wait'.current_wp >= wait.current_wp
             /\ (wait'.cause # "deadline" /\ wait'.m.seq <= wait.current_wp) =>
                   /\ wait'.current_wp = wait.current_wp
                   /\ wait'.tstart = wait.tstart
                   /\ wait'.status = "raised" <=> wait'.m.flightmode # wait.mode
                   /\ wait'.status = "returned" <=>
                         /\ wait'.m.flightmode = wait.mode
                         /\ wait.current_wp = wait.p.wpnum_end
                         /\ wait'.m.wp_dist < wait.p.max_dist
      ]_vars

\* C39 as amended: the same for a sample whose index is at or below
\* current_wp and below the sentinel 255; a sample with the sentinel index
\* returns True, unless the mode changed, also when current_wp is 255
\* already.
C39_IndexNeverDecreasesBelowSentinel ==
    [][/\ (wait.status = "none" /\ wait'.status # "none"
                                /\ wait'.p.fn = "wait_waypoint") =>
             wait'.current_wp = wait'.start_wp
       /\ (WaypointWait /\ wait.status = "running") =>
             /\ wait'.current_wp >= wait.current_wp
             /\ (wait'.cause # "deadline" /\ wait'.m.seq <= wait.current_wp
                                         /\ wait'.m.seq < 255) =>
                   /\ wait'.current_wp = wait.current_wp
                   /\ wait'.tstart = wait.tstart
                   /\ wait'.status = "raised" <=> wait'.m.flightmode # wait.mode
                   /\ wait'.status = "returned" <=>
                         /\ wait'.m.flightmode = wait.mode
                         /\ wait.current_wp = wait.p.wpnum_end
                         /\ wait'.m.wp_dist < wait.p.max_dist
             /\ (wait'.cause # "deadline" /\ wait'.m.seq >= 255
                                         /\ wait'.m.flightmode = wait.mode) =>
                   wait'.status = "returned"
      ]_vars

\* a wait that started at index 4, not at wpnum_start, and advanced to 5 goes
\* on after a sample with the lower index 3, the deadline still counted from
\* the advance
C39_Witness ==
    /\ WaypointWait
    /\ wait.status = "running"
    /\ wait.start_wp = 4
    /\ wait.p.wpnum_start # wait.start_wp
    /\ wait.current_wp = 5
    /\ wait.m # NoSample
    /\ wait.m.seq = 3
    /\ wait.tstart > wait.began
====
